---- MODULE Spec2Model ----
(***************************************************************************)
(* Model of infer_pipeline.py: the inference runner that loads a raw CSV   *)
(* table and a serialized pipeline, derives a cleaned table, predicts on   *)
(* the raw table, assembles the results table and writes it out.           *)
(*                                                                         *)
(* Tables are records [nrows, cols] where cols is a sequence of columns    *)
(* [name, vals].  Cell values, labels and probabilities are integers.      *)
(* The pipeline is an opaque collaborator: what its methods return or      *)
(* raise is chosen nondeterministically at the step that calls them.       *)
(***************************************************************************)
EXTENDS Integers, Sequences, FiniteSets, TLC

\* ---- bounds -------------------------------------------------------------
MaxRows == 2
MaxProbaCols == 3

\* ---- encodings ----------------------------------------------------------
NaN == 0 - 1
NoTable == [nrows |-> 0 - 1, cols |-> <<>>]
NoProba == [ndim |-> 0, n |-> 0, k |-> 0, m |-> <<>>]
NoVector == <<0 - 1>>
Running == 0 - 1
NoErr == "none"

PredCol == "Prediccion"
ProbNoDefaultCol == "Probabilidad_No_Default"
ProbDefaultCol == "Probabilidad_Default"
ProbCol == "Probabilidad"
ProbNames == {ProbNoDefaultCol, ProbDefaultCol, ProbCol}

\* ---- table helpers (pandas DataFrame operations used by the runner) ------
ColNames(t) == {t.cols[i].name : i \in DOMAIN t.cols}

HasCol(t, n) == n \in ColNames(t)

ColPos(t, n) == CHOOSE i \in DOMAIN t.cols : t.cols[i].name = n

ColVals(t, n) == t.cols[ColPos(t, n)].vals

NameSeq(t) == [i \in DOMAIN t.cols |-> t.cols[i].name]

\* DataFrame._ensure_valid_index: a frame without rows takes the length of
\* the first list-like value assigned to it, old columns filled with NaN.
EnsureValidIndex(t, vals) ==
    IF t.nrows = 0 /\ Len(vals) > 0
    THEN [nrows |-> Len(vals),
          cols |-> [i \in DOMAIN t.cols |->
                      [name |-> t.cols[i].name,
                       vals |-> [j \in 1..Len(vals) |-> NaN]]]]
    ELSE t

\* require_length_match: the assignment raises ValueError otherwise.
LengthMatch(t, vals) == Len(vals) = EnsureValidIndex(t, vals).nrows

\* results.insert(0, name, vals)
InsertFirst(t, n, vals) ==
    LET e == EnsureValidIndex(t, vals)
    IN [nrows |-> e.nrows, cols |-> <<[name |-> n, vals |-> vals]>> \o e.cols]

\* results[name] = vals : replaces in place when the column exists, else appends
SetItem(t, n, vals) ==
    LET e == EnsureValidIndex(t, vals)
    IN IF HasCol(e, n)
       THEN [nrows |-> e.nrows,
             cols |-> [i \in DOMAIN e.cols |->
                         IF e.cols[i].name = n
                         THEN [name |-> n, vals |-> vals]
                         ELSE e.cols[i]]]
       ELSE [nrows |-> e.nrows, cols |-> Append(e.cols, [name |-> n, vals |-> vals])]

DropCols(t, S) ==
    [nrows |-> t.nrows,
     cols |-> SelectSeq(t.cols, LAMBDA c : c.name \notin S)]

\* rows lo..nrows of a table
RowsFrom(t, lo) ==
    LET n == IF t.nrows >= lo THEN t.nrows - lo + 1 ELSE 0
    IN [nrows |-> n,
        cols |-> [i \in DOMAIN t.cols |->
                    [name |-> t.cols[i].name,
                     vals |-> [j \in 1..n |-> t.cols[i].vals[j + lo - 1]]]]]

\* ---- numpy helpers --------------------------------------------------------
\* probabilities[:, j] (j counted from 0 in the source, from 1 here)
ProbaColumn(p, j) == [i \in 1..p.n |-> p.m[i][j]]

RECURSIVE Flatten(_)
Flatten(m) == IF m = <<>> THEN <<>> ELSE Head(m) \o Flatten(Tail(m))

Ravel(p) == Flatten(p.m)

\* ---- inputs ---------------------------------------------------------------
\* headers of the raw CSV files considered
RawHeaders == {<<"x">>, <<"ID", "x">>, <<"x", "ID">>, <<"ID", "x", "Prediccion">>}

IdColChoices == {"ID", "Prediccion"}

NameCode(n) == IF n = "ID" THEN 1 ELSE IF n = "x" THEN 2 ELSE 3

\* the cell of column n in row i: distinct per column and row
RawCell(n, i) == 100 + 10 * NameCode(n) + i

MakeRaw(h, r) ==
    [nrows |-> r,
     cols |-> [c \in DOMAIN h |->
                 [name |-> h[c], vals |-> [i \in 1..r |-> RawCell(h[c], i)]]]]

RawTables == {MakeRaw(h, r) : h \in RawHeaders, r \in 0..MaxRows}

\* errors an opaque collaborator call may raise (subclasses of Exception)
CollabErrs == {"FileNotFoundError", "RuntimeError"}

\* DataFrames a cleaning stage may return: columns dropped, leading rows
\* dropped (lo = first row kept), optionally a column of its own added.
CleanFrames(raw) ==
    {LET d == RowsFrom(DropCols(raw, drop), lo)
     IN IF addp
        THEN SetItem(d, ProbCol, [i \in 1..d.nrows |-> 300 + i])
        ELSE d
     : drop \in {{}, {"ID"}, {"Prediccion"}, {"ID", "Prediccion"}},
       lo \in {1, 2, raw.nrows + 1},
       addp \in BOOLEAN}

\* pd.DataFrame(ndarray, index=df_raw.index): columns are numbered 0..k-1
\* (integers in pandas, so never equal to a string column name)
ArrayToFrame(t) ==
    [nrows |-> t.nrows,
     cols |-> [c \in DOMAIN t.cols |->
                 [name |-> ToString(c - 1), vals |-> t.cols[c].vals]]]

\* arrays a cleaning stage may return: the raw values from row lo on
CleanArrays(raw) == {RowsFrom(raw, lo) : lo \in {1, 2}}

\* label vectors predict may return.  Labels below 50 are integer class
\* codes, labels from 50 up stand for string labels.
LabelKinds == {"int", "str", "mixed"}

PredVector(kind, n) ==
    [i \in 1..n |->
        IF kind = "int" THEN i % 2
        ELSE IF kind = "str" THEN 50 + i
        ELSE IF i = 1 THEN 0 ELSE 50 + i]

IsIntLabel(v) == v < 50

\* probability outputs predict_proba may return
ProbaValue(i, j) == 200 + 10 * i + j

MakeProba(nd, n, k) ==
    [ndim |-> nd, n |-> n, k |-> k,
     m |-> [i \in 1..n |-> [j \in 1..k |-> ProbaValue(i, j)]]]

ProbaOutputs(lengths) ==
    {MakeProba(1, n, 1) : n \in lengths}
    \cup {MakeProba(2, n, k) : n \in lengths, k \in 1..MaxProbaCols}

\* predict and predict_proba run the whole pipeline, cleaning included
\* (line 72): they return one entry per raw row, or one per row that the
\* cleaning stage kept.
OutputLengths(raw, cleaned) == {raw.nrows, cleaned.nrows}

\* ---- state ----------------------------------------------------------------
VARIABLES pc, csvExists, pklExists, id_col, csvContent,
          test_data, pipeline, cleaned_test_data, cleanStage,
          predictions, predictOutcome, probabilities, has_proba, probaOutcome,
          results, outFile, writes, exitStatus, stderr, log, escaped

vars == <<pc, csvExists, pklExists, id_col, csvContent,
          test_data, pipeline, cleaned_test_data, cleanStage,
          predictions, predictOutcome, probabilities, has_proba, probaOutcome,
          results, outFile, writes, exitStatus, stderr, log, escaped>>

argVars == <<csvExists, pklExists, id_col, csvContent>>

Init ==
    /\ pc = "validate"
    /\ csvExists \in BOOLEAN
    /\ pklExists \in BOOLEAN
    /\ id_col \in IdColChoices
    /\ csvContent \in RawTables
    /\ test_data = NoTable
    /\ pipeline = "unloaded"
    /\ cleaned_test_data = NoTable
    /\ cleanStage = [kind |-> "none", err |-> NoErr, out |-> NoTable]
    /\ predictions = NoVector
    /\ predictOutcome = "none"
    /\ probabilities = NoProba
    /\ has_proba = FALSE
    /\ probaOutcome = "none"
    /\ results = NoTable
    /\ outFile = NoTable
    /\ writes = 0
    /\ exitStatus = Running
    /\ stderr = <<>>
    /\ log = <<>>
    /\ escaped = [site |-> "none", err |-> NoErr]

Event(e, a) == [ev |-> e, arg |-> a]

\* faulty variants of ExitCodeFor: the general clause placed first, and the
\* FileNotFoundError clause applied to every error
ExitCodeForAlwaysTwo(e) == 2

ExitCodeForAlwaysOne(e) == 1

\* the except clauses of main: which exit status an escaping error gets
ExitCodeFor(e) == IF e = "FileNotFoundError" THEN 1 ELSE 2

HandlerMessage(e) ==
    [kind |-> IF e = "FileNotFoundError" THEN "archivo_no_encontrado"
              ELSE "error_al_procesar",
     err |-> e]

\* an error e raised at step site leaves the try block
Escape(site, e) ==
    /\ escaped' = [site |-> site, err |-> e]
    /\ stderr' = Append(stderr, HandlerMessage(e))
    /\ exitStatus' = ExitCodeFor(e)
    /\ pc' = "done"

\* faulty variant of Validate: the pipeline path is not checked
ValidateSkipsPkl ==
    /\ pc = "validate"
    /\ IF ~csvExists
       THEN /\ stderr' = Append(stderr, [kind |-> "csv_no_encontrado", err |-> NoErr])
            /\ exitStatus' = 1
            /\ pc' = "done"
       ELSE /\ pc' = "load_csv"
            /\ UNCHANGED <<stderr, exitStatus>>
    /\ UNCHANGED <<argVars, test_data, pipeline, cleaned_test_data, cleanStage,
                   predictions, predictOutcome, probabilities, has_proba,
                   probaOutcome, results, outFile, writes, log, escaped>>

\* ---- steps of main --------------------------------------------------------
Validate ==
    /\ pc = "validate"
    /\ IF ~csvExists
       THEN /\ stderr' = Append(stderr, [kind |-> "csv_no_encontrado", err |-> NoErr])
            /\ exitStatus' = 1
            /\ pc' = "done"
       ELSE IF ~pklExists
       THEN /\ stderr' = Append(stderr, [kind |-> "pkl_no_encontrado", err |-> NoErr])
            /\ exitStatus' = 1
            /\ pc' = "done"
       ELSE /\ pc' = "load_csv"
            /\ UNCHANGED <<stderr, exitStatus>>
    /\ UNCHANGED <<argVars, test_data, pipeline, cleaned_test_data, cleanStage,
                   predictions, predictOutcome, probabilities, has_proba,
                   probaOutcome, results, outFile, writes, log, escaped>>

LoadCsv ==
    /\ pc = "load_csv"
    /\ \/ /\ test_data' = csvContent
          /\ log' = log \o <<Event("read_csv", NoTable), Event("print_shape_raw", NoTable)>>
          /\ pc' = "load_pkl"
          /\ UNCHANGED <<stderr, exitStatus, escaped>>
       \/ \E e \in {"FileNotFoundError", "ParserError"} :
            /\ Escape("load_csv", e)
            /\ log' = Append(log, Event("read_csv", NoTable))
            /\ UNCHANGED test_data
    /\ UNCHANGED <<argVars, pipeline, cleaned_test_data, cleanStage,
                   predictions, predictOutcome, probabilities, has_proba,
                   probaOutcome, results, outFile, writes>>

LoadPkl ==
    /\ pc = "load_pkl"
    /\ \/ /\ pipeline' = "loaded"
          /\ pc' = "clean"
          /\ UNCHANGED <<stderr, exitStatus, escaped>>
       \/ \E e \in {"FileNotFoundError", "UnpicklingError"} :
            /\ Escape("load_pkl", e)
            /\ UNCHANGED pipeline
    /\ log' = Append(log, Event("joblib_load", NoTable))
    /\ UNCHANGED <<argVars, test_data, cleaned_test_data, cleanStage,
                   predictions, predictOutcome, probabilities, has_proba,
                   probaOutcome, results, outFile, writes>>

\* ---- get_cleaned_df_from_pipeline -------------------------------------------
\* what the loaded pipeline's cleaning stage does when asked to transform
CleaningStages(raw) ==
    {[kind |-> k, err |-> NoErr, out |-> NoTable] : k \in {"no_named_steps", "no_cleaning_key"}}
    \cup {[kind |-> "raises", err |-> e, out |-> NoTable] : e \in CollabErrs}
    \cup {[kind |-> "frame", err |-> NoErr, out |-> t] : t \in CleanFrames(raw)}
    \cup {[kind |-> "array", err |-> NoErr, out |-> t] : t \in CleanArrays(raw)}

\* faulty variant of CleanHandlerCatches: OS errors are let through
CleanHandlerCatchesNoOSError(e) == e \notin {NoErr, "FileNotFoundError"}

\* except Exception (line 38)
CleanHandlerCatches(e) == e # NoErr

\* faulty variant of StageError: named_steps["cleaning"] is looked up without
\* the membership test, so a pipeline without that key raises KeyError
StageErrorNoKeyTest(stage, df_raw) ==
    IF stage.kind = "raises" THEN stage.err
    ELSE IF stage.kind = "no_cleaning_key" THEN "KeyError"
    ELSE IF stage.kind = "array" /\ stage.out.nrows # df_raw.nrows
    THEN "ValueError"
    ELSE NoErr

\* the error raised inside the try block (lines 30-35): by transform, or by
\* the DataFrame constructor when the array's rows do not fit the raw index
StageError(stage, df_raw) ==
    IF stage.kind = "raises" THEN stage.err
    ELSE IF stage.kind = "array" /\ stage.out.nrows # df_raw.nrows
    THEN "ValueError"
    ELSE NoErr

\* result: the frame returned, the warning written to stderr (NoErr if none),
\* whether transform was invoked, and an error leaving the function (never)
get_cleaned_df_from_pipeline(stage, df_raw) ==
    LET raised == StageError(stage, df_raw)
        called == stage.kind \in {"raises", "frame", "array"}
    IN IF raised # NoErr
       THEN IF CleanHandlerCatches(raised)
            THEN [df |-> df_raw, warning |-> raised, called |-> called, err |-> NoErr]
            ELSE [df |-> NoTable, warning |-> NoErr, called |-> called, err |-> raised]
       ELSE IF stage.kind = "frame"
       THEN [df |-> stage.out, warning |-> NoErr, called |-> called, err |-> NoErr]
       ELSE IF stage.kind = "array"
       THEN [df |-> ArrayToFrame(stage.out), warning |-> NoErr, called |-> called, err |-> NoErr]
       ELSE [df |-> df_raw, warning |-> NoErr, called |-> called, err |-> NoErr]

\* the table handed to the collaborator calls (lines 69, 73, 77)
TransformArg(raw, cleaned) == raw

\* faulty variant of PredictArg: predict is given the cleaned table
PredictArgCleaned(raw, cleaned) == cleaned

PredictArg(raw, cleaned) == raw

ProbaArg(raw, cleaned) == raw

Clean ==
    /\ pc = "clean"
    /\ \E stage \in CleaningStages(test_data) :
         LET r == get_cleaned_df_from_pipeline(stage, test_data)
             callLog == IF r.called
                        THEN <<Event("transform", TransformArg(test_data, NoTable))>>
                        ELSE <<>>
         IN /\ cleanStage' = stage
            /\ IF r.err # NoErr
               THEN /\ Escape("clean", r.err)
                    /\ log' = log \o callLog
                    /\ UNCHANGED cleaned_test_data
               ELSE /\ cleaned_test_data' = r.df
                    /\ stderr' = IF r.warning # NoErr
                                 THEN Append(stderr, [kind |-> "aviso_limpio", err |-> r.warning])
                                 ELSE stderr
                    /\ log' = log \o callLog \o <<Event("print_shape_clean", NoTable)>>
                    /\ pc' = "predict"
                    /\ UNCHANGED <<exitStatus, escaped>>
    /\ UNCHANGED <<argVars, test_data, pipeline, predictions, predictOutcome,
                   probabilities, has_proba, probaOutcome, results, outFile, writes>>

Predict ==
    /\ pc = "predict"
    /\ log' = Append(log, Event("predict", PredictArg(test_data, cleaned_test_data)))
    /\ \/ \E kind \in LabelKinds, n \in OutputLengths(test_data, cleaned_test_data) :
            /\ predictions' = PredVector(kind, n)
            /\ predictOutcome' = "returned"
            /\ pc' = "proba"
            /\ UNCHANGED <<stderr, exitStatus, escaped>>
       \/ \E e \in CollabErrs :
            /\ Escape("predict", e)
            /\ predictOutcome' = "raised"
            /\ UNCHANGED predictions
    /\ UNCHANGED <<argVars, test_data, pipeline, cleaned_test_data, cleanStage,
                   probabilities, has_proba, probaOutcome, results, outFile, writes>>

\* faulty variant of ProbaHandlerCatches: only the missing attribute is caught
ProbaHandlerCatchesAttrOnly(e) == e = "AttributeError"

\* except Exception (line 79)
ProbaHandlerCatches(e) == e # NoErr

PredictProba ==
    /\ pc = "proba"
    /\ \/ \E p \in ProbaOutputs(OutputLengths(test_data, cleaned_test_data)) :
            /\ probabilities' = p
            /\ has_proba' = TRUE
            /\ probaOutcome' = "returned"
            /\ log' = Append(log, Event("predict_proba", ProbaArg(test_data, cleaned_test_data)))
            /\ pc' = "assemble"
            /\ UNCHANGED <<stderr, exitStatus, escaped>>
       \/ \E o \in {"missing", "raised"} :
          \E e \in (IF o = "missing" THEN {"AttributeError"} ELSE CollabErrs) :
            /\ probaOutcome' = o
            /\ log' = log
                      \o (IF o = "raised"
                          THEN <<Event("predict_proba", ProbaArg(test_data, cleaned_test_data))>>
                          ELSE <<>>)
                      \o (IF ProbaHandlerCatches(e)
                          THEN <<Event("print_aviso_proba", NoTable)>>
                          ELSE <<>>)
            /\ IF ProbaHandlerCatches(e)
               THEN /\ probabilities' = NoProba
                    /\ has_proba' = FALSE
                    /\ pc' = "assemble"
                    /\ UNCHANGED <<stderr, exitStatus, escaped>>
               ELSE /\ Escape("proba", e)
                    /\ UNCHANGED <<probabilities, has_proba>>
    /\ UNCHANGED <<argVars, test_data, pipeline, cleaned_test_data, cleanStage,
                   predictions, predictOutcome, results, outFile, writes>>

\* ---- assembling the results table (lines 85-100) -----------------------------
\* a column assignment that raises ValueError on a length mismatch;
\* NoTable stands for "an earlier assignment has raised"
TrySetItem(t, n, vals) ==
    IF t = NoTable \/ ~LengthMatch(t, vals) THEN NoTable ELSE SetItem(t, n, vals)

TryInsertFirst(t, n, vals) ==
    IF t = NoTable \/ ~LengthMatch(t, vals) THEN NoTable ELSE InsertFirst(t, n, vals)

\* lines 87-88
WithId(cleaned, raw, idc) ==
    IF HasCol(raw, idc) /\ ~HasCol(cleaned, idc)
    THEN TryInsertFirst(cleaned, idc, ColVals(raw, idc))
    ELSE cleaned

\* line 91
WithPrediction(t, preds) == TrySetItem(t, PredCol, preds)

\* faulty variant of WithProba: the two class columns are swapped
WithProbaSwapped(t, hp, p) ==
    IF ~hp THEN t
    ELSE IF p.ndim = 2 /\ p.k >= 2
    THEN TrySetItem(TrySetItem(t, ProbNoDefaultCol, ProbaColumn(p, 2)),
                    ProbDefaultCol, ProbaColumn(p, 1))
    ELSE TrySetItem(t, ProbCol, Ravel(p))

\* lines 94-100
WithProba(t, hp, p) ==
    IF ~hp THEN t
    ELSE IF p.ndim = 2 /\ p.k >= 2
    THEN TrySetItem(TrySetItem(t, ProbNoDefaultCol, ProbaColumn(p, 1)),
                    ProbDefaultCol, ProbaColumn(p, 2))
    ELSE TrySetItem(t, ProbCol, Ravel(p))

AssembleResults(cleaned, raw, idc, preds, hp, p) ==
    WithProba(WithPrediction(WithId(cleaned, raw, idc), preds), hp, p)

Assemble ==
    /\ pc = "assemble"
    /\ LET r == AssembleResults(cleaned_test_data, test_data, id_col,
                                predictions, has_proba, probabilities)
       IN IF r = NoTable
          THEN /\ Escape("assemble", "ValueError")
               /\ UNCHANGED results
          ELSE /\ results' = r
               /\ pc' = "persist"
               /\ UNCHANGED <<stderr, exitStatus, escaped>>
    /\ UNCHANGED <<argVars, test_data, pipeline, cleaned_test_data, cleanStage,
                   predictions, predictOutcome, probabilities, has_proba,
                   probaOutcome, outFile, writes, log>>

\* ---- persist and report (lines 102-127) --------------------------------------
Persist ==
    /\ pc = "persist"
    /\ \/ /\ outFile' = results
          /\ writes' = writes + 1
          /\ log' = log \o <<Event("to_csv", results), Event("print_saved", NoTable)>>
          /\ pc' = "report"
          /\ UNCHANGED <<stderr, exitStatus, escaped>>
       \/ \E e \in {"FileNotFoundError", "PermissionError"} :
            /\ Escape("persist", e)
            /\ log' = Append(log, Event("to_csv", results))
            /\ UNCHANGED <<outFile, writes>>
    /\ UNCHANGED <<argVars, test_data, pipeline, cleaned_test_data, cleanStage,
                   predictions, predictOutcome, probabilities, has_proba,
                   probaOutcome, results>>

\* lines 107-111: bincount for integer labels, else value_counts().sort_index(),
\* which raises TypeError when the labels cannot be ordered
DistributionError(preds) ==
    LET ints == {i \in DOMAIN preds : IsIntLabel(preds[i])}
    IN IF ints = DOMAIN preds \/ ints = {} THEN NoErr ELSE "TypeError"

\* lines 116-122
PreviewCols(res, idc, hp, p) ==
    LET base == IF hp /\ p # NoProba /\ p.ndim = 2 /\ p.k >= 2
                THEN <<PredCol, ProbDefaultCol>>
                ELSE <<PredCol>>
        cols_show == IF HasCol(res, idc) THEN <<idc>> \o base ELSE base
    IN SelectSeq(cols_show, LAMBDA c : HasCol(res, c))

\* lines 123-127: the preview shows the preferred columns, or every column
\* when none of them is in the results table (head() only limits the rows
\* shown)
Preview(res, idc, hp, p) ==
    LET shown == PreviewCols(res, idc, hp, p)
    IN IF shown # <<>>
       THEN [nrows |-> res.nrows,
             cols |-> [i \in DOMAIN shown |-> res.cols[ColPos(res, shown[i])]]]
       ELSE res

Report ==
    /\ pc = "report"
    /\ IF DistributionError(predictions) # NoErr
       THEN /\ Escape("report", DistributionError(predictions))
            /\ UNCHANGED log
       ELSE /\ log' = log \o <<Event("print_count", NoTable),
                               Event("print_dist", NoTable),
                               Event("print_preview",
                                     Preview(results, id_col, has_proba, probabilities))>>
            /\ exitStatus' = 0
            /\ pc' = "done"
            /\ UNCHANGED <<stderr, escaped>>
    /\ UNCHANGED <<argVars, test_data, pipeline, cleaned_test_data, cleanStage,
                   predictions, predictOutcome, probabilities, has_proba,
                   probaOutcome, results, outFile, writes>>

Next ==
    \/ Validate
    \/ LoadCsv
    \/ LoadPkl
    \/ Clean
    \/ Predict
    \/ PredictProba
    \/ Assemble
    \/ Persist
    \/ Report

Spec == Init /\ [][Next]_vars

\* ---- properties -----------------------------------------------------------
Done == pc = "done"

Written == outFile # NoTable

InLog(e) == \E i \in DOMAIN log : log[i].ev = e

Warnings(kind) == {i \in DOMAIN stderr : stderr[i].kind = kind}

\* a probability column name is in t only as a column the cleaned table had
NoProbaColumnAdded(t) ==
    \A n \in ProbNames :
        HasCol(t, n) =>
            /\ HasCol(cleaned_test_data, n)
            /\ \/ ColVals(t, n) = ColVals(cleaned_test_data, n)
               \/ cleaned_test_data.nrows = 0

\* C1: when the --csv path does not exist, or it exists and the --pkl path
\* does not, the run ends with status 1 and nothing has happened: no table
\* read, no pipeline loaded, no transform/predict/predict_proba call, no
\* output file.
C1_FailFast ==
    (~csvExists \/ ~pklExists) =>
        /\ pc \in {"validate", "done"}
        /\ Done => exitStatus = 1
        /\ log = <<>>
        /\ test_data = NoTable
        /\ pipeline = "unloaded"
        /\ ~Written
        /\ writes = 0

C1_Witness == Done /\ csvExists /\ ~pklExists /\ exitStatus = 1 /\ Len(stderr) = 1

\* C2 as stated: whenever both files exist, loading and predict succeeded and
\* predict_proba is missing or raised, the finished run has status 0, the
\* output file is written and it holds no probability column of the runner.
C2_Original ==
    (Done /\ csvExists /\ pklExists /\ pipeline = "loaded"
          /\ predictOutcome = "returned" /\ probaOutcome \in {"missing", "raised"}) =>
        /\ exitStatus = 0
        /\ Written
        /\ NoProbaColumnAdded(outFile)

\* C2 amended: a missing or raising predict_proba never ends the run by
\* itself: no error leaves the try block at that step, probabilities are
\* treated as absent, and the run finishes with status 0 and the output file
\* written unless a later step (assembling, writing, reporting) raises; an
\* output file that is written holds no probability column of the runner.
C2_GracefulProba ==
    (probaOutcome \in {"missing", "raised"}) =>
        /\ escaped.site # "proba"
        /\ ~has_proba
        /\ probabilities = NoProba
        /\ InLog("print_aviso_proba")
        /\ Written => NoProbaColumnAdded(outFile)
        /\ (Done /\ escaped.site = "none") => (exitStatus = 0 /\ Written)

C2_Witness ==
    /\ Done /\ probaOutcome = "raised" /\ exitStatus = 0 /\ Written
    /\ test_data.nrows = 2

\* C3 as stated: whenever predict raises, whatever the class of the error,
\* the run ends with status 2, predict_proba is never called and no output
\* file is written.
C3_Original ==
    (Done /\ predictOutcome = "raised") =>
        /\ exitStatus = 2
        /\ ~InLog("predict_proba")
        /\ probaOutcome = "none"
        /\ ~Written

\* C3 amended: whenever predict raises, the outer handler ends the run with
\* status 2, or with status 1 when the error is a FileNotFoundError;
\* predict_proba is never called and no output file is written.
C3_FatalPredict ==
    (predictOutcome = "raised") =>
        /\ Done
        /\ escaped.site = "predict"
        /\ exitStatus = (IF escaped.err = "FileNotFoundError" THEN 1 ELSE 2)
        /\ ~InLog("predict_proba")
        /\ probaOutcome = "none"
        /\ ~Written
        /\ writes = 0

C3_Witness ==
    /\ Done /\ predictOutcome = "raised" /\ escaped.err = "FileNotFoundError"
    /\ exitStatus = 1

\* C4: every results table that is written has exactly as many rows as the
\* raw table, and row for row its identifier column (if the raw table has
\* one) holds the raw identifier values, its Prediccion column the predict
\* output and its probability columns the predict_proba output; this also
\* when the cleaning stage returned a table with a different row count.
C4_RowAlignment ==
    Written =>
        /\ outFile.nrows = test_data.nrows
        /\ (HasCol(test_data, id_col) /\ HasCol(outFile, id_col)
              /\ ~HasCol(cleaned_test_data, id_col)) =>
                ColVals(outFile, id_col) = ColVals(test_data, id_col)
        /\ HasCol(outFile, PredCol) /\ ColVals(outFile, PredCol) = predictions
        /\ (has_proba /\ probabilities.ndim = 2 /\ probabilities.k >= 2) =>
                /\ ColVals(outFile, ProbNoDefaultCol) = ProbaColumn(probabilities, 1)
                /\ ColVals(outFile, ProbDefaultCol) = ProbaColumn(probabilities, 2)
        /\ (has_proba /\ ~(probabilities.ndim = 2 /\ probabilities.k >= 2)) =>
                ColVals(outFile, ProbCol) = Ravel(probabilities)

\* C5: when the configured identifier column is in the raw table and not in
\* the cleaned table, it is the first column of the written results table
\* with the raw table's values in row order (also when its name is one the
\* runner adds later, such as Prediccion); when it is not in the raw table,
\* the runner puts no column in front of the cleaned table's columns.
C5_IdentifierPreservation ==
    Written =>
        /\ (HasCol(test_data, id_col) /\ ~HasCol(cleaned_test_data, id_col)) =>
                /\ outFile.cols[1].name = id_col
                /\ outFile.cols[1].vals = ColVals(test_data, id_col)
        /\ ~HasCol(test_data, id_col) =>
                /\ Len(outFile.cols) >= Len(cleaned_test_data.cols)
                /\ SubSeq(NameSeq(outFile), 1, Len(cleaned_test_data.cols))
                       = NameSeq(cleaned_test_data)

\* columns the results table has beyond the cleaned table, the identifier
\* and Prediccion
GainedColumns(t) == ColNames(t) \ (ColNames(cleaned_test_data) \cup {id_col, PredCol})

\* C6: once the results table is assembled from a predict_proba output with
\* one row per raw row: a 2-D output with k >= 2 columns gives exactly the
\* pair Probabilidad_No_Default = column 0, Probabilidad_Default = column 1
\* (further columns unused); a 2-D output with one column or a 1-D output
\* gives exactly the column Probabilidad with the flattened values; never
\* both.
C6_ProbaDispatch ==
    (results # NoTable /\ probaOutcome = "returned"
        /\ probabilities.n = test_data.nrows) =>
        IF probabilities.ndim = 2 /\ probabilities.k >= 2
        THEN /\ HasCol(results, ProbNoDefaultCol)
             /\ ColVals(results, ProbNoDefaultCol) = [i \in 1..probabilities.n |-> probabilities.m[i][1]]
             /\ HasCol(results, ProbDefaultCol)
             /\ ColVals(results, ProbDefaultCol) = [i \in 1..probabilities.n |-> probabilities.m[i][2]]
             /\ GainedColumns(results) = {ProbNoDefaultCol, ProbDefaultCol}
             /\ HasCol(results, ProbCol) => HasCol(cleaned_test_data, ProbCol)
        ELSE /\ HasCol(results, ProbCol)
             /\ ColVals(results, ProbCol) = [i \in 1..probabilities.n |-> probabilities.m[i][1]]
             /\ GainedColumns(results) \subseteq {ProbCol}
             /\ ~HasCol(results, ProbNoDefaultCol)
             /\ ~HasCol(results, ProbDefaultCol)

C6_Witness ==
    /\ Written /\ probabilities.ndim = 2 /\ probabilities.k = 3
    /\ probabilities.n = 2 /\ test_data.nrows = 2
    /\ Len(outFile.cols) = Len(cleaned_test_data.cols) + 3

C6_WitnessGeneric ==
    /\ Written /\ probabilities.ndim = 2 /\ probabilities.k = 1
    /\ probabilities.n = 2 /\ HasCol(outFile, ProbCol)
    /\ ~HasCol(cleaned_test_data, ProbCol)

\* C7: when the pipeline has no cleaning stage, the written results table
\* without the identifier, Prediccion and probability columns is the raw
\* table without columns of those names: same names, order and values; and
\* no cleaning warning was written.
C7_NoCleaningStage ==
    (cleanStage.kind \in {"no_named_steps", "no_cleaning_key"}) =>
        /\ cleaned_test_data = test_data
        /\ Warnings("aviso_limpio") = {}
        /\ ~InLog("transform")
        /\ Written =>
             DropCols(outFile, {id_col, PredCol} \cup ProbNames)
                 = DropCols(test_data, {id_col, PredCol} \cup ProbNames)
        /\ (Written /\ HasCol(test_data, id_col) /\ id_col # PredCol) =>
             ColVals(outFile, id_col) = ColVals(test_data, id_col)

C7_Witness ==
    /\ Written /\ cleanStage.kind = "no_cleaning_key" /\ test_data.nrows = 2
    /\ HasCol(test_data, "x") /\ HasCol(outFile, "x")

\* C8: when the cleaning stage's transform raises, whatever the class of the
\* error, exactly one warning carrying the error is on stderr, the cleaned
\* table is the raw table, the run goes on to predict, and the failure
\* alone neither changes the exit status nor prevents the output file.
C8_CleaningFailure ==
    (cleanStage.kind = "raises") =>
        /\ cleaned_test_data = test_data
        /\ Cardinality(Warnings("aviso_limpio")) = 1
        /\ \A i \in Warnings("aviso_limpio") : stderr[i].err = cleanStage.err
        /\ escaped.site # "clean"
        /\ InLog("transform")
        /\ pc = "predict" \/ InLog("predict")
        /\ (Done /\ escaped.site = "none") => (exitStatus = 0 /\ Written)

C8_Witness ==
    /\ Done /\ cleanStage.kind = "raises" /\ cleanStage.err = "FileNotFoundError"
    /\ exitStatus = 0 /\ Written

\* C9: a finished run has one status in {0,1,2}: 1 exactly when an input
\* file was missing at validation or a FileNotFoundError left the main
\* block; 2 exactly when another error left the main block; 0 exactly when
\* no error left it, and then the output file is written.  An error of
\* transform or predict_proba never leaves the block.
C9_ExitStatus ==
    /\ ~Done => exitStatus = Running
    /\ Done =>
        /\ exitStatus \in {0, 1, 2}
        /\ exitStatus = 1 <=>
              \/ ~csvExists \/ ~pklExists
              \/ escaped.err = "FileNotFoundError"
        /\ exitStatus = 2 <=> escaped.err \notin {NoErr, "FileNotFoundError"}
        /\ exitStatus = 0 <=> (csvExists /\ pklExists /\ escaped.site = "none")
        /\ exitStatus = 0 => (Written /\ writes = 1)
        /\ escaped.site \in {"none", "load_csv", "load_pkl", "predict",
                             "assemble", "persist", "report"}
        /\ escaped.site # "none" =>
              stderr[Len(stderr)].err = escaped.err

C9_Witness ==
    /\ Done /\ exitStatus = 2 /\ escaped.site = "persist"
    /\ escaped.err = "PermissionError" /\ ~Written

C9_WitnessLate == Done /\ exitStatus = 2 /\ escaped.site = "report" /\ Written

\* position of an event in the order of the run
Rank(e) ==
    CASE e = "read_csv" -> 1
      [] e = "print_shape_raw" -> 2
      [] e = "joblib_load" -> 3
      [] e = "transform" -> 4
      [] e = "print_shape_clean" -> 5
      [] e = "predict" -> 6
      [] e = "predict_proba" -> 7
      [] e = "print_aviso_proba" -> 8
      [] e = "to_csv" -> 9
      [] e = "print_saved" -> 10
      [] e = "print_count" -> 11
      [] e = "print_dist" -> 12
      [] e = "print_preview" -> 13

\* C10: the events of a run come in the order read table, load pipeline,
\* transform, predict, predict_proba, write, report, each at most once,
\* after validation; transform, predict and predict_proba get the raw
\* table; the output file is written at most once, only after predict
\* returned and the predict_proba attempt ended, and before the report.
C10_Ordering ==
    /\ \A i, j \in DOMAIN log : i < j => Rank(log[i].ev) < Rank(log[j].ev)
    /\ log # <<>> => (csvExists /\ pklExists /\ pc # "validate")
    /\ \A i \in DOMAIN log :
          log[i].ev \in {"transform", "predict", "predict_proba"} =>
              log[i].arg = csvContent
    /\ writes <= 1
    /\ Written <=> writes = 1
    /\ Written => (predictOutcome = "returned" /\ probaOutcome # "none"
                    /\ InLog("to_csv") /\ InLog("predict"))
    /\ InLog("print_count") => Written
    /\ InLog("to_csv") => (predictOutcome = "returned" /\ probaOutcome # "none")

C10_Witness ==
    /\ Done /\ exitStatus = 0 /\ InLog("transform") /\ InLog("predict_proba")
    /\ cleaned_test_data # test_data /\ Len(log) = 12

====
